---- MODULE Spec2Model ----
(***************************************************************************)
(* Model of the Quantitative Indicator Engine of TradingAgents-CN:         *)
(* EnhancedAnalysisToolkit (the aggregator) and the analyzers it calls.    *)
(*                                                                         *)
(* Strings of the program are written in ASCII here:                       *)
(*   ratings    强烈买入 strong_buy, 买入 buy, 持有 hold, 减持 reduce,     *)
(*              卖出 sell                                                  *)
(*   positions  重仓 heavy, 标准仓位 standard, 轻仓 light, 减仓 reduced,   *)
(*              清仓 cleared                                               *)
(*   levels     低 low, 中 mid, 高 high, 中等 medium, 未知 unknown         *)
(*   valuation  低估 undervalued, 合理 fair, 高估 overvalued               *)
(*   signals    买入 buy, 看涨 bullish, 卖出 sell, 中性 neutral            *)
(*   quality    优秀 excellent, 良好 good, 一般 fair                       *)
(*                                                                         *)
(* Numbers.  Python floats are modelled by exact fixed-point integers:     *)
(* a score of s points is the integer s * Pt, so that the ratios and means *)
(* the aggregator forms (x/3, x/4, x * 0.25, ...) are exact.               *)
(***************************************************************************)
EXTENDS Integers, Sequences, FiniteSets, TLC

VARIABLES pc, args, results, outcome, report

vars == <<pc, args, results, outcome, report>>

\* units of one score point
Pt == 12 * 1200

\* ------------------------------------------------------------------ values

\* Python None, and the {"error": ...} dict an analyzer or the toolkit records
NoneVal == [kind |-> "none"]
ErrorVal == [kind |-> "error"]

\* `r and "error" not in r`: the dict is there, non-empty, and no error record
Succeeded(r) == r.kind = "ok"

\* sum(s), added up by halves
RECURSIVE SumRange(_, _, _)
SumRange(s, lo, hi) ==
    IF lo > hi THEN 0
    ELSE IF lo = hi THEN s[lo]
    ELSE SumRange(s, lo, (lo + hi) \div 2) + SumRange(s, (lo + hi) \div 2 + 1, hi)

SumSeq(s) == SumRange(s, 1, Len(s))

Min(a, b) == IF a < b THEN a ELSE b
Max(a, b) == IF a > b THEN a ELSE b

\* ------------------------------------------- _generate_comprehensive_summary

\* technical_score: share of the signals that are 买入 or 看涨, times 100
BullishCount(signals) ==
    Len(SelectSeq(signals, LAMBDA s : s = "buy" \/ s = "bullish"))

TechnicalScore(tech) ==
    IF Succeeded(tech) /\ tech.signals # <<>>
    THEN IF Len(tech.signals) > 0
         THEN (BullishCount(tech.signals) * 100 * Pt) \div Len(tech.signals)
         ELSE 50 * Pt
    ELSE 0

FundamentalsScoreMutant(fund) ==
    IF Succeeded(fund)
    THEN IF fund.valuation_level = "undervalued"
         THEN (fund.health_score + 20) * Pt
         ELSE IF fund.valuation_level = "fair"
              THEN fund.health_score * Pt
              ELSE Max(0, fund.health_score - 20) * Pt
    ELSE 0

\* fundamentals_score: health_score moved by the valuation level
FundamentalsScore(fund) ==
    IF Succeeded(fund)
    THEN IF fund.valuation_level = "undervalued"
         THEN Min(100, fund.health_score + 20) * Pt
         ELSE IF fund.valuation_level = "fair"
              THEN fund.health_score * Pt
              ELSE Max(0, fund.health_score - 20) * Pt
    ELSE 0

\* sentiment_score = (weighted_sentiment + 1) * 50 * confidence;
\* weighted_sentiment is held in hundredths, confidence_score in 1e-4
SentimentScore(sent) ==
    IF Succeeded(sent)
    THEN ((sent.weighted_sentiment + 100) * sent.confidence_score * (Pt \div 800)) \div 25
    ELSE 0

\* risk_score = 100 - overall_risk_score; overall_risk_score in hundredths
RiskScore(risk) ==
    IF Succeeded(risk)
    THEN ((100 * 100 - risk.overall_risk_score) * Pt) \div 100
    ELSE 0

ValidScoresMutant(scores) == SelectSeq(scores, LAMBDA s : s >= 0)

\* valid_scores = [s for s in scores if s > 0]
ValidScores(scores) == SelectSeq(scores, LAMBDA s : s > 0)

\* overall_score: mean of the valid scores, 0 when there are none
OverallScore(scores) ==
    IF ValidScores(scores) # <<>>
    THEN SumSeq(ValidScores(scores)) \div Len(ValidScores(scores))
    ELSE 0

KeyPoints(res) ==
    (IF Succeeded(res.technical_analysis)
        /\ res.technical_analysis.overall_trend # "unknown"
     THEN <<"trend">> ELSE <<>>)
    \o (IF Succeeded(res.fundamentals_analysis)
           /\ res.fundamentals_analysis.valuation_level # "unknown"
        THEN <<"valuation">> ELSE <<>>)
    \o (IF Succeeded(res.sentiment_analysis)
           /\ res.sentiment_analysis.overall_sentiment # "unknown"
        THEN <<"sentiment">> ELSE <<>>)
    \o (IF Succeeded(res.risk_analysis)
           /\ res.risk_analysis.risk_level # "unknown"
        THEN <<"risk_level">> ELSE <<>>)

GenerateComprehensiveSummary(res) ==
    LET t == TechnicalScore(res.technical_analysis)
        f == FundamentalsScore(res.fundamentals_analysis)
        s == SentimentScore(res.sentiment_analysis)
        r == RiskScore(res.risk_analysis)
    IN [kind |-> "ok",
        technical_score |-> t,
        fundamentals_score |-> f,
        sentiment_score |-> s,
        risk_score |-> r,
        overall_score |-> OverallScore(<<t, f, s, r>>),
        key_points |-> KeyPoints(res),
        strengths |-> {d \in {"technical", "fundamentals", "sentiment", "risk"} :
                         (CASE d = "technical" -> t [] d = "fundamentals" -> f
                            [] d = "sentiment" -> s [] OTHER -> r) > 70 * Pt},
        weaknesses |-> {d \in {"technical", "fundamentals", "sentiment", "risk"} :
                         (CASE d = "technical" -> t [] d = "fundamentals" -> f
                            [] d = "sentiment" -> s [] OTHER -> r) < 30 * Pt}]

\* -------------------------------------- _generate_investment_recommendation

RatingMutant(overall_score) ==
    IF overall_score > 80 * Pt THEN "strong_buy"
    ELSE IF overall_score > 65 * Pt THEN "buy"
    ELSE IF overall_score > 50 * Pt THEN "hold"
    ELSE IF overall_score > 35 * Pt THEN "reduce"
    ELSE "sell"

\* the rating ladder on overall_score
Rating(overall_score) ==
    IF overall_score >= 80 * Pt THEN "strong_buy"
    ELSE IF overall_score >= 65 * Pt THEN "buy"
    ELSE IF overall_score >= 50 * Pt THEN "hold"
    ELSE IF overall_score >= 35 * Pt THEN "reduce"
    ELSE "sell"

\* the position size set in the same branch as the rating
LadderPosition(rating) ==
    CASE rating = "strong_buy" -> "heavy"
      [] rating = "buy" -> "standard"
      [] rating = "hold" -> "light"
      [] rating = "reduce" -> "reduced"
      [] OTHER -> "cleared"

\* position_size after the risk adjustment: with risk_level 高 a buy rating
\* (强烈买入 or 买入) is set to 轻仓
PositionSize(rating, risk) ==
    IF Succeeded(risk) /\ risk.risk_level = "high"
       /\ rating \in {"strong_buy", "buy"}
    THEN "light"
    ELSE LadderPosition(rating)

\* alerts[:2]
FirstTwo(alerts) == SubSeq(alerts, 1, Min(2, Len(alerts)))

RiskWarnings(risk) ==
    IF Succeeded(risk)
    THEN (IF risk.risk_level = "high" THEN <<"high_risk_caution">> ELSE <<>>)
         \o FirstTwo(risk.risk_alerts)
    ELSE <<>>

\* "短期" in trend / "长期" in trend
TimeHorizon(tech) ==
    IF Succeeded(tech)
    THEN IF tech.overall_trend \in {"short_term_up", "short_term_down"}
         THEN "short"
         ELSE IF tech.overall_trend \in {"long_term_up", "long_term_down"}
              THEN "long"
              ELSE "medium"
    ELSE "medium"

ActionItems(rating) ==
    IF rating \in {"strong_buy", "buy"} THEN "build_position"
    ELSE IF rating = "hold" THEN "keep_position"
    ELSE "cut_position"

GenerateInvestmentRecommendation(res) ==
    LET rating == Rating(res.comprehensive_summary.overall_score)
        risk == res.risk_analysis
    IN [kind |-> "ok",
        rating |-> rating,
        time_horizon |-> TimeHorizon(res.technical_analysis),
        risk_level |-> IF Succeeded(risk) THEN risk.risk_level ELSE "medium",
        position_size |-> PositionSize(rating, risk),
        risk_warnings |-> RiskWarnings(risk),
        action_items |-> ActionItems(rating)]

\* ------------------------------------------------- _assess_analysis_quality

Domains == <<"technical_analysis", "fundamentals_analysis",
             "sentiment_analysis", "risk_analysis">>

\* the domains whose analysis is missing or carries an error, in the order
\* the limitations are appended
Limitations(res) == SelectSeq(Domains, LAMBDA d : ~Succeeded(res[d]))

AnalysisCoverage(res) ==
    ((Len(Domains) - Len(Limitations(res))) * 100) \div Len(Domains)

OverallQualityMutant(coverage) ==
    IF coverage > 75 THEN "excellent"
    ELSE IF coverage > 50 THEN "good"
    ELSE "fair"

OverallQuality(coverage) ==
    IF coverage >= 75 THEN "excellent"
    ELSE IF coverage >= 50 THEN "good"
    ELSE "fair"

AssessAnalysisQuality(res) ==
    [kind |-> "ok",
     data_completeness |-> 0,
     analysis_coverage |-> AnalysisCoverage(res),
     overall_quality |-> OverallQuality(AnalysisCoverage(res)),
     limitations |-> Limitations(res)]

\* ------------------------------------------------------- the results dict

\* results as comprehensive_analysis creates it: every entry None
EmptyResults ==
    [technical_analysis |-> NoneVal,
     fundamentals_analysis |-> NoneVal,
     sentiment_analysis |-> NoneVal,
     risk_analysis |-> NoneVal,
     comprehensive_summary |-> NoneVal,
     investment_recommendation |-> NoneVal,
     analysis_quality |-> NoneVal]

\* ------------------------------------ bounded inputs of the pure functions

MaxSignals == 2
MaxAlerts == 3
MaxOffset == 1

SignalLabels == {"buy", "bullish", "sell"}

SignalSeqs == UNION {[1..n -> SignalLabels] : n \in 0..MaxSignals}

TechInputs ==
    {NoneVal, ErrorVal}
    \cup {[kind |-> "ok", signals |-> sg, overall_trend |-> "unknown"] :
            sg \in SignalSeqs}

FundInputs ==
    {NoneVal, ErrorVal}
    \cup {[kind |-> "ok", valuation_level |-> v, health_score |-> h] :
            v \in {"undervalued", "fair", "overvalued", "unknown"},
            h \in {0, 60, 100}}

SentInputs ==
    {NoneVal, ErrorVal}
    \cup {[kind |-> "ok", weighted_sentiment |-> w, confidence_score |-> c,
           overall_sentiment |-> "neutral"] :
            w \in {-100, 0, 100}, c \in {0, 5000, 10000}}

RiskBand(overall_risk_score) ==
    IF overall_risk_score < 30 * 100 THEN "low"
    ELSE IF overall_risk_score < 60 * 100 THEN "mid"
    ELSE "high"

RiskInputs ==
    {NoneVal, ErrorVal}
    \cup {[kind |-> "ok", overall_risk_score |-> r, risk_level |-> RiskBand(r),
           risk_alerts |-> <<>>] :
            r \in {0, 4050, 10000}}

\* ---- _generate_comprehensive_summary applied to any results dict

InitSummary ==
    /\ pc = "summary_input"
    /\ results \in {[EmptyResults EXCEPT !.technical_analysis = t,
                                         !.fundamentals_analysis = f,
                                         !.sentiment_analysis = s,
                                         !.risk_analysis = r] :
                      t \in TechInputs, f \in FundInputs,
                      s \in SentInputs, r \in RiskInputs}
    /\ args = NoneVal
    /\ outcome = NoneVal
    /\ report = "none"

ApplySummary ==
    /\ pc = "summary_input"
    /\ results' = [results EXCEPT !.comprehensive_summary =
                       GenerateComprehensiveSummary(results)]
    /\ pc' = "summary_done"
    /\ UNCHANGED <<args, outcome, report>>

NextSummary == ApplySummary

SpecSummary == InitSummary /\ [][NextSummary]_vars

\* ---- _generate_investment_recommendation applied to any results dict

\* the rungs of the rating ladder, with both ends of the score range
LadderRungs == {0, 35, 50, 65, 80, 100}

\* overall scores within MaxOffset hundredths of a rung (79.99, 80.00, 80.01, ...)
ScoreGrid ==
    {h \in 0..(100 * 100) :
        \E t \in LadderRungs : h - 100 * t \in (0 - MaxOffset)..MaxOffset}

RecommendTech ==
    {NoneVal, ErrorVal}
    \cup {[kind |-> "ok", signals |-> <<>>, overall_trend |-> tr] :
            tr \in {"unknown", "short_term_up", "long_term_down", "sideways"}}

AlertNames == <<"sharpe", "market_risk", "volatility_risk", "downside_risk">>

RecommendRisk ==
    {NoneVal, ErrorVal}
    \cup {[kind |-> "ok", overall_risk_score |-> r, risk_level |-> RiskBand(r),
           risk_alerts |-> SubSeq(AlertNames, 1, n)] :
            r \in {2000, 5000, 7000}, n \in 0..MaxAlerts}

SummaryWith(h) ==
    [kind |-> "ok", technical_score |-> 0, fundamentals_score |-> 0,
     sentiment_score |-> 0, risk_score |-> 0,
     overall_score |-> (h * Pt) \div 100,
     key_points |-> <<>>, strengths |-> {}, weaknesses |-> {}]

InitRecommend ==
    /\ pc = "recommend_input"
    /\ results \in {[EmptyResults EXCEPT !.technical_analysis = t,
                                         !.risk_analysis = r,
                                         !.comprehensive_summary = SummaryWith(h)] :
                      t \in RecommendTech, r \in RecommendRisk, h \in ScoreGrid}
    /\ args = NoneVal
    /\ outcome = NoneVal
    /\ report = "none"

ApplyRecommend ==
    /\ pc = "recommend_input"
    /\ results' = [results EXCEPT !.investment_recommendation =
                       GenerateInvestmentRecommendation(results)]
    /\ pc' = "recommend_done"
    /\ UNCHANGED <<args, outcome, report>>

NextRecommend == ApplyRecommend

SpecRecommend == InitRecommend /\ [][NextRecommend]_vars

\* =============================================================== input text
\* The str arguments.  An argument is None or a text, and a text is the
\* sequence of its lines; the empty string is the text without lines (its one
\* empty line matches no test of any parser).  A line is a labelled line
\* ("PE: 12.5"), a comma-separated row, a row of a table printed with blanks
\* between its columns, or a blank line.  Labels stand for the
\* substrings the parsers test for:
\*   current_price 当前价格   close 收盘价   pe PE / 市盈率   pb PB / 市净率
\*   volume_cn 成交量         open Open (its upper case holds "PE")
\* Amounts (prices, ratios) are integers in hundredths.

Text(lines) == [kind |-> "text", lines |-> lines]

\* Python truth of a str argument: neither None nor ""
Truthy(t) == t.kind = "text" /\ t.lines # <<>>

\* what stands where a number is looked for: digits, or text without digits
Num(v) == [kind |-> "num", v |-> v]
Str(s) == [kind |-> "str", s |-> s]

Labelled(label, colon, value) ==
    [kind |-> "label", label |-> label, colon |-> colon, value |-> value]

Csv(cells) == [kind |-> "csv", cells |-> cells]

\* "2024-01-02 10.0 10.2 10.5 9.8 1000": columns separated by blanks
Row(cells) == [kind |-> "row", cells |-> cells]

\* ================================================ EnhancedFundamentalsAnalyzer

\* the substring tests of _extract_price_info, in the order of its elif chain;
\* the tests for PE, PB and 成交量 do not ask for the colon
PriceInfoBranch(line) ==
    IF line.kind = "label"
    THEN CASE line.label = "current_price" /\ line.colon -> "current_price"
           [] line.label \in {"pe", "open"} -> "pe_ratio"
           [] line.label = "pb" -> "pb_ratio"
           [] line.label = "volume_cn" -> "volume"
           [] OTHER -> "skip"
    ELSE IF line.kind \in {"csv", "row"}
    THEN IF \E i \in 1..Len(line.cells) : line.cells[i] = Str("open")
         THEN "pe_ratio"
         ELSE IF \E i \in 1..Len(line.cells) : line.cells[i] = Str("volume_cn")
         THEN "volume"
         ELSE "skip"
    ELSE "skip"

\* line.split(':')[1] raises IndexError on a line without a colon
HasColon(line) == line.kind = "label" /\ line.colon

EmptyDict == [kind |-> "empty"]

NoPriceInfo ==
    [kind |-> "dict", current_price |-> NoneVal, pe_ratio |-> NoneVal,
     pb_ratio |-> NoneVal, volume |-> NoneVal]

\* the value a key of price_info ends with: the number of the last line of
\* its branch that holds one
LastValue(lines, branch) ==
    LET hits == SelectSeq(lines, LAMBDA line :
                    PriceInfoBranch(line) = branch /\ line.value.kind = "num")
    IN IF hits = <<>> THEN NoPriceInfo[branch] ELSE hits[Len(hits)].value

\* _extract_price_info: any exception gives {} (None has no split, and a
\* line taken by a branch that splits at the colon may have none)
ExtractPriceInfo(stock_data) ==
    IF stock_data.kind = "none" THEN EmptyDict
    ELSE IF \E i \in 1..Len(stock_data.lines) :
               /\ PriceInfoBranch(stock_data.lines[i]) # "skip"
               /\ ~HasColon(stock_data.lines[i])
    THEN EmptyDict
    ELSE [kind |-> "dict",
          current_price |-> LastValue(stock_data.lines, "current_price"),
          pe_ratio |-> LastValue(stock_data.lines, "pe_ratio"),
          pb_ratio |-> LastValue(stock_data.lines, "pb_ratio"),
          volume |-> LastValue(stock_data.lines, "volume")]

\* Python truth of a parsed ratio: not None and not 0
NonZero(x) == x.kind = "num" /\ x.v # 0

\* _calculate_valuation_metrics: the level from PE and PB
ValuationLevel(price_info) ==
    LET pe == price_info.pe_ratio
        pb == price_info.pb_ratio
    IN IF NonZero(pe) /\ NonZero(pb)
       THEN IF pe.v < 15 * 100 /\ pb.v < 2 * 100 THEN "undervalued"
            ELSE IF pe.v > 30 * 100 \/ pb.v > 5 * 100 THEN "overvalued"
            ELSE "fair"
       ELSE "unknown"

\* the ratios _calculate_financial_health fills in when fundamentals text is
\* given, in hundredths
DemoRatios ==
    [debt_to_equity |-> 40, current_ratio |-> 180, quick_ratio |-> 120,
     interest_coverage |-> 850, cash_ratio |-> 30]

\* _calculate_financial_health: 20 points per check passed
HealthScore(fundamentals_data) ==
    IF Truthy(fundamentals_data)
    THEN (IF DemoRatios.debt_to_equity < 50 THEN 20 ELSE 0)
         + (IF DemoRatios.current_ratio > 150 THEN 20 ELSE 0)
         + (IF DemoRatios.quick_ratio > 100 THEN 20 ELSE 0)
         + (IF DemoRatios.interest_coverage > 500 THEN 20 ELSE 0)
         + (IF DemoRatios.cash_ratio > 20 THEN 20 ELSE 0)
    ELSE 0

\* analyze_fundamentals
AnalyzeFundamentals(stock_data, fundamentals_data) ==
    LET price_info == ExtractPriceInfo(stock_data)
    IN IF price_info = EmptyDict THEN ErrorVal
       ELSE [kind |-> "ok",
             price_info |-> price_info,
             valuation_level |-> ValuationLevel(price_info),
             health_score |-> HealthScore(fundamentals_data)]

\* ======================================================== EnhancedRiskAnalyzer
\* Returns are integers in basis points (1e-4), variances in their squares.

\* fewer parsed prices than this are replaced by a simulated walk, and fewer
\* prices than this make analyze_risk_metrics give up
MinPricePoints == 30

\* length of the simulated walk
MockPricePoints == 60

\* fewer parsed volumes than this are replaced by simulated volumes
MinVolumePoints == 10

\* the prices _parse_price_data collects from the lines: the number after the
\* colon of a 收盘价: / 价格: / Close: line, else the 4th cell of a row with
\* at least 4 cells when it is a number
PricesOf(lines) ==
    LET labelled(line) ==
            /\ line.kind = "label" /\ line.colon
            /\ line.label \in {"close", "current_price"}
            /\ line.value.kind = "num"
        row(line) ==
            /\ line.kind = "csv" /\ Len(line.cells) >= 4
            /\ line.cells[4].kind = "num"
        found == SelectSeq(lines, LAMBDA line : labelled(line) \/ row(line))
    IN [i \in 1..Len(found) |->
           IF found[i].kind = "label" THEN found[i].value.v ELSE found[i].cells[4].v]

\* _parse_price_data: None when the argument is None (the except branch); the
\* simulated walk drawn for this call when fewer than 30 prices were found
ParsePriceData(stock_data, mock_prices) ==
    IF stock_data.kind = "none" THEN NoneVal
    ELSE IF Len(PricesOf(stock_data.lines)) < MinPricePoints
    THEN [kind |-> "list", prices |-> mock_prices]
    ELSE [kind |-> "list", prices |-> PricesOf(stock_data.lines)]

\* _calculate_returns
CalculateReturns(prices) ==
    [i \in 1..(Len(prices) - 1) |->
        ((prices[i + 1] - prices[i]) * 10000) \div prices[i]]

Squares(s) == [i \in 1..Len(s) |-> s[i] * s[i]]

\* np.var: the population variance
Variance(s) ==
    LET mean == SumSeq(s) \div Len(s)
    IN (SumSeq(Squares(s)) \div Len(s)) - mean * mean

\* annualized_volatility squared: np.std(returns)^2 * 252
AnnualVariance(returns) == Variance(returns) * 252

\* the highest and the lowest price of prices[lo..hi] and the deepest relative
\* fall (in basis points, 0 at most) from a price to a later one, by halves:
\* the deepest fall across the halves is from the peak of the first to the
\* trough of the second
RECURSIVE Drawdown(_, _, _)
Drawdown(prices, lo, hi) ==
    IF lo = hi
    THEN [peak |-> prices[lo], trough |-> prices[lo], worst |-> 0]
    ELSE LET mid == (lo + hi) \div 2
             first == Drawdown(prices, lo, mid)
             second == Drawdown(prices, mid + 1, hi)
             across == ((second.trough - first.peak) * 10000) \div first.peak
         IN [peak |-> Max(first.peak, second.peak),
             trough |-> Min(first.trough, second.trough),
             worst |-> Min(across, Min(first.worst, second.worst))]

\* maximum_drawdown: the cumulative product of 1 + return is the price over
\* the first price, so the drawdowns are taken on the prices from the second
\* on; the minimum over the days of the fall from the running maximum is the
\* deepest fall from a price to a later one
MaximumDrawdown(prices) == Drawdown(prices, 2, Len(prices)).worst

DownsideReturns(returns) == SelectSeq(returns, LAMBDA r : r < 0)

\* sortino_ratio < 0.5, for returns with a negative one: the excess return
\* mean * 252 - risk_free_rate against half the downside deviation
SortinoBelowHalf(returns) ==
    LET excess == (SumSeq(returns) * 252) \div Len(returns) - 250
        down == DownsideReturns(returns)
        deviation2 == (SumSeq(Squares(down)) \div Len(down)) * 252
        e == excess \div 100
    IN excess < 0 \/ 4 * e * e < deviation2 \div 10000

\* all returns are exactly 0.0, so np.std(returns) is exactly 0
ZeroVolatility(prices) == \A i \in 1..Len(prices) : prices[i] = prices[1]

\* the formatted metrics that stay None
NoneMetrics(prices) ==
    LET returns == CalculateReturns(prices)
    IN (IF DownsideReturns(returns) = <<>>
        THEN {"downside_deviation", "sortino_ratio"} ELSE {})
       \cup (IF MaximumDrawdown(prices) < 0 THEN {} ELSE {"calmar_ratio"})
       \cup (IF ZeroVolatility(prices) THEN {"sharpe_ratio"} ELSE {})

Clamp(score) == Min(100, Max(0, score))

ScoreMarketRiskMutant(market) ==
    Clamp(50 + (IF market.beta > 150 THEN 30
                ELSE IF market.beta > 120 THEN 20
                ELSE IF market.beta < 80 THEN 0 - 20 ELSE 0)
             + (IF market.correlation > 80 \/ market.correlation < 0 - 80
                THEN 15 ELSE 0))

\* _score_market_risk; beta and correlation in hundredths
ScoreMarketRisk(market) ==
    Clamp(50 + (IF market.beta > 150 THEN 30
                ELSE IF market.beta > 120 THEN 20
                ELSE IF market.beta < 80 THEN 0 - 10 ELSE 0)
             + (IF market.correlation > 80 \/ market.correlation < 0 - 80
                THEN 15 ELSE 0))

\* _score_volatility_risk: annualized volatility above 0.4, 0.3, 0.2
ScoreVolatilityRisk(returns) ==
    LET variance == AnnualVariance(returns)
    IN Clamp(50 + (IF variance > 16000000 THEN 40
                   ELSE IF variance > 9000000 THEN 25
                   ELSE IF variance > 4000000 THEN 10
                   ELSE 0 - 10))

\* _score_downside_risk
ScoreDownsideRisk(prices) ==
    LET returns == CalculateReturns(prices)
        max_dd == MaximumDrawdown(prices)
    IN Clamp(50 + (IF max_dd < 0 - 3000 THEN 30
                   ELSE IF max_dd < 0 - 2000 THEN 20
                   ELSE IF max_dd < 0 - 1000 THEN 10 ELSE 0)
                + (IF DownsideReturns(returns) # <<>> /\ SortinoBelowHalf(returns)
                   THEN 15 ELSE 0))

\* _calculate_market_risk: the market returns are always simulated
\* (_parse_market_returns gives None), so beta and the correlation are the
\* ones drawn for this call; constant prices give beta 0.0 and a NaN
\* correlation, which no comparison finds above 0.8
MarketRisk(prices, drawn) ==
    IF ZeroVolatility(prices) THEN [beta |-> 0, correlation |-> 0] ELSE drawn

\* the numbers after the colon of the 成交量: lines, in thousands of shares
VolumesOf(lines) ==
    LET found == SelectSeq(lines, LAMBDA line :
                     /\ line.kind = "label" /\ line.label = "volume_cn"
                     /\ line.colon /\ line.value.kind = "num")
    IN [i \in 1..Len(found) |-> found[i].value.v]

\* _extract_volume_data: simulated volumes when fewer than 10 were found
ExtractVolumeData(stock_data, mock_volumes) ==
    IF Len(VolumesOf(stock_data.lines)) < MinVolumePoints
    THEN mock_volumes
    ELSE VolumesOf(stock_data.lines)

\* _calculate_liquidity_risk: liquidity_score from the average volume
\* (above 1,000,000 / 500,000) and from std / mean (below 0.5 / 1.0)
LiquidityScore(volumes) ==
    LET avg == SumSeq(volumes) \div Len(volumes)
    IN IF Len(volumes) > 1
       THEN (IF avg > 1000 THEN 30 ELSE IF avg > 500 THEN 20 ELSE 10)
            + (IF 4 * Variance(volumes) < avg * avg THEN 20
               ELSE IF Variance(volumes) < avg * avg THEN 10 ELSE 0)
       ELSE 0

\* the values _calculate_fundamental_risk fills in when fundamentals text is
\* given; ratios in hundredths
RiskDemoValues ==
    [debt_to_equity |-> 40, current_ratio |-> 180,
     altman_z_score |-> 320, piotroski_score |-> 7]

FundamentalRiskScoreMutant(fundamentals_data) ==
    IF Truthy(fundamentals_data) THEN 80 ELSE 50

\* _calculate_fundamental_risk: fundamental_risk_score
FundamentalRiskScore(fundamentals_data) ==
    IF Truthy(fundamentals_data)
    THEN (IF RiskDemoValues.debt_to_equity < 30 THEN 25
          ELSE IF RiskDemoValues.debt_to_equity < 60 THEN 15 ELSE 5)
         + (IF RiskDemoValues.current_ratio > 200 THEN 25
            ELSE IF RiskDemoValues.current_ratio > 150 THEN 15 ELSE 5)
         + (IF RiskDemoValues.altman_z_score > 299 THEN 25
            ELSE IF RiskDemoValues.altman_z_score > 181 THEN 15 ELSE 5)
         + (IF RiskDemoValues.piotroski_score >= 7 THEN 25
            ELSE IF RiskDemoValues.piotroski_score >= 5 THEN 15 ELSE 5)
    ELSE 0

RiskFactorNames ==
    <<"market_risk", "volatility_risk", "downside_risk",
      "liquidity_risk", "fundamental_risk">>

\* the weights of the factors, in hundredths
RiskWeights ==
    [market_risk |-> 25, volatility_risk |-> 25, downside_risk |-> 20,
     liquidity_risk |-> 15, fundamental_risk |-> 15]

\* _calculate_comprehensive_risk: overall_risk_score in hundredths of a point
WeightedRiskScore(risk_scores) ==
    SumSeq([i \in 1..Len(RiskFactorNames) |->
               risk_scores[RiskFactorNames[i]] * RiskWeights[RiskFactorNames[i]]])

RiskFactors(risk_scores) ==
    SelectSeq(RiskFactorNames, LAMBDA f : risk_scores[f] > 60)

\* _generate_risk_alerts; the Sharpe ratio 0.055 / volatility is below 0.5
\* when the annualized volatility is above 0.11
GenerateRiskAlerts(overall_risk_score, prices, risk_scores) ==
    (IF overall_risk_score > 80 * 100 THEN <<"high_risk">> ELSE <<>>)
    \o (IF ~ZeroVolatility(prices)
           /\ AnnualVariance(CalculateReturns(prices)) > 1210000
        THEN <<"sharpe">> ELSE <<>>)
    \o RiskFactors(risk_scores)

\* analyze_risk_metrics; drawn holds what the call draws at random: the
\* simulated walk, the simulated volumes, and the market's beta and correlation
AnalyzeRiskMetrics(stock_data, market_data, fundamentals_data, drawn) ==
    LET price_series == ParsePriceData(stock_data, drawn.prices)
    IN IF price_series.kind = "none" THEN ErrorVal
       ELSE IF Len(price_series.prices) < MinPricePoints THEN ErrorVal
       ELSE
         LET prices == price_series.prices
             risk_scores ==
                 [market_risk |-> ScoreMarketRisk(MarketRisk(prices, drawn.market)),
                  volatility_risk |-> ScoreVolatilityRisk(CalculateReturns(prices)),
                  downside_risk |-> ScoreDownsideRisk(prices),
                  liquidity_risk |->
                      100 - LiquidityScore(ExtractVolumeData(stock_data, drawn.volumes)),
                  fundamental_risk |-> 100 - FundamentalRiskScore(fundamentals_data)]
             overall == WeightedRiskScore(risk_scores)
         IN [kind |-> "ok",
             price_data_points |-> Len(prices),
             risk_scores |-> risk_scores,
             none_metrics |-> NoneMetrics(prices),
             overall_risk_score |-> overall,
             risk_level |-> RiskBand(overall),
             risk_alerts |-> GenerateRiskAlerts(overall, prices, risk_scores)]

\* =================================================== EnhancedSentimentAnalyzer
\* A title or a content is the sequence of the words of interest it holds:
\*   rise 上涨 0.8   limit_up 涨停 1.0   profit 盈利 0.6
\*   fall 下跌 -0.8  limit_down 跌停 -1.0  risk 风险 -0.6
\*   policy 政策, regulation 监管, earnings 业绩, merger 重组 (high impact),
\*   figure (digits followed by %, 亿 or 万), announce 公告 (neutral)
\* Sentiment scores are integers in hundredths, time decay factors in tenths,
\* content weights and the confidence score in 1e-4, final weights in 1e-5.

Words(w) == [kind |-> "words", w |-> w]

\* a line that starts with none of the field labels
Plain(colon, long, w) ==
    [kind |-> "plain", colon |-> colon, long |-> long, value |-> Words(w)]

Blank == [kind |-> "blank"]

\* a 来源 value, by the keys of impact_weights["news_source"] it contains
Source(keys) == [kind |-> "source", keys |-> keys]

\* a 时间 value "<n>小时前" / "<n>天前" / "<n>周前" / "<n>月前" (hours, days,
\* weeks, months ago); n < 0 when it holds no digit
Ago(unit, n) == [kind |-> "ago", unit |-> unit, n |-> n]

NewsFields == {"title", "content", "time", "source", "url"}

EmptyNews == [f \in NewsFields |-> NoneVal]

\* the defaults setdefault fills in: 未知标题, "", the current date, 未知来源
NewsDefaults ==
    [title |-> Words(<<>>), content |-> Words(<<>>), time |-> Str("date"),
     source |-> Source({}), url |-> Str("")]

\* one line of _parse_news_data on the item being collected
NewsLine(line, current) ==
    IF line.kind = "label" /\ line.colon /\ line.label \in NewsFields
    THEN [current EXCEPT ![line.label] = line.value]
    ELSE IF line.kind \in {"label", "plain"} /\ line.colon /\ current = EmptyNews
    THEN [current EXCEPT !.title = line.value]
    ELSE IF line.kind = "plain" /\ line.long /\ current.content = NoneVal
    THEN [current EXCEPT !.content = line.value]
    ELSE current

\* the item collected from the lines first..last, none of them blank
RECURSIVE CollectNews(_, _, _, _)
CollectNews(lines, first, last, current) ==
    IF first > last THEN current
    ELSE CollectNews(lines, first + 1, last, NewsLine(lines[first], current))

\* _parse_news_data: a blank line closes the item being collected, when it
\* holds anything, and so does the end of the text; so the items are those
\* of the runs of lines between blank lines.  The fields an item lacks get
\* their defaults.
ParseNewsData(news_data) ==
    IF news_data.kind = "none" THEN <<>>
    ELSE LET lines == news_data.lines
             n == Len(lines)
             opens(i) == lines[i] # Blank /\ (i = 1 \/ lines[i - 1] = Blank)
             close(i) == CHOOSE j \in i..n :
                             /\ \A k \in i..j : lines[k] # Blank
                             /\ j = n \/ lines[j + 1] = Blank
             starts == SelectSeq([i \in 1..n |-> i], opens)
             collected == [k \in 1..Len(starts) |->
                              CollectNews(lines, starts[k], close(starts[k]), EmptyNews)]
             items == SelectSeq(collected, LAMBDA item : item # EmptyNews)
         IN [i \in 1..Len(items) |->
                [f \in NewsFields |->
                    IF items[i][f] = NoneVal THEN NewsDefaults[f] ELSE items[i][f]]]

\* the words of title + ' ' + content
ItemWords(item) == item.title.w \o item.content.w

KeywordWeight(word) ==
    CASE word = "rise" -> 80 [] word = "limit_up" -> 100 [] word = "profit" -> 60
      [] word = "fall" -> 0 - 80 [] word = "limit_down" -> 0 - 100
      [] word = "risk" -> 0 - 60 [] OTHER -> 0

\* floor of 100 * sqrt(n)
Sqrt100(n) == CHOOSE r \in 0..(100 * n) : r * r <= 10000 * n /\ 10000 * n < (r + 1) * (r + 1)

\* _calculate_text_sentiment: the weights of the keyword occurrences over the
\* square root of their number, held within [-1, 1]
TextSentiment(words) ==
    LET hits == SelectSeq(words, LAMBDA w : KeywordWeight(w) # 0)
        score == SumSeq([i \in 1..Len(hits) |-> KeywordWeight(hits[i])])
    IN IF hits = <<>> THEN 0
       ELSE Max(0 - 100, Min(100, (score * 100) \div Sqrt100(Len(hits))))

\* the keys of impact_weights["news_source"] in the order of the dict, with
\* their weights in tenths
SourceKeys ==
    << <<"cctv_news", 10>>, <<"xinhua", 10>>, <<"peoples_daily", 10>>,
       <<"securities_times", 9>>, <<"shanghai_securities", 9>>,
       <<"china_securities", 9>>, <<"finance", 8>>, <<"first_finance", 8>>,
       <<"c21_herald", 8>>, <<"sina_finance", 7>>, <<"tencent_finance", 7>>,
       <<"netease_finance", 7>>, <<"other", 5>> >>

\* _get_source_weight: the weight of the first key the source contains
SourceWeight(source) ==
    LET found == SelectSeq(SourceKeys, LAMBDA k : k[1] \in source.keys)
    IN IF found # <<>> THEN found[1][2] ELSE 5

RECURSIVE Times12(_, _)
Times12(weight, k) ==
    IF k = 0 THEN weight ELSE Times12((weight * 12) \div 10, k - 1)

\* _get_content_weight: 1.2 per high impact keyword present, 1.1 for a
\* figure, at most 2.0
ContentWeight(words) ==
    LET present == {words[i] : i \in 1..Len(words)}
        k == Cardinality(present \cap {"policy", "regulation", "earnings", "merger"})
        weight == Times12(10000, k)
    IN Min(IF "figure" \in present THEN (weight * 11) \div 10 ELSE weight, 20000)

TimeDecayMutant(time) ==
    IF time.kind # "ago" THEN 10
    ELSE IF time.n < 0 THEN 5
    ELSE IF time.unit = "hours" THEN (IF time.n < 24 THEN 10 ELSE 9)
    ELSE Max(0, 10 - time.n)

\* _calculate_single_time_decay: only 小时前 (hours) and 天前 (days) are
\* looked for; every other text, 周前 (weeks) and 月前 (months) included,
\* counts as today's
TimeDecay(time) ==
    IF time.kind # "ago" \/ time.unit \notin {"hours", "days"} THEN 10
    ELSE IF time.n < 0 THEN 5
    ELSE IF time.unit = "hours" THEN (IF time.n < 24 THEN 10 ELSE 9)
    ELSE IF time.n = 1 THEN 9
    ELSE IF time.n = 2 THEN 8
    ELSE IF time.n = 3 THEN 7
    ELSE IF time.n <= 7 THEN 6
    ELSE IF time.n <= 14 THEN 4
    ELSE IF time.n <= 30 THEN 2
    ELSE 1

\* analyze_news_sentiment with _calculate_comprehensive_sentiment
AnalyzeNewsSentiment(news_data) ==
    LET items == ParseNewsData(news_data)
        n == Len(items)
        score == [i \in 1..n |-> TextSentiment(ItemWords(items[i]))]
        weight == [i \in 1..n |->
                      SourceWeight(items[i].source) * ContentWeight(ItemWords(items[i]))]
        decay == [i \in 1..n |-> TimeDecay(items[i].time)]
        total_weight == SumSeq([i \in 1..n |-> weight[i] * decay[i]])
        weighted_sentiment ==
            IF total_weight > 0
            THEN SumSeq([i \in 1..n |-> score[i] * weight[i] * decay[i]]) \div total_weight
            ELSE 0
    IN IF items = <<>> THEN ErrorVal
       ELSE [kind |-> "ok",
             news_count |-> n,
             individual_scores |-> score,
             final_weights |-> weight,
             decay_factors |-> decay,
             weighted_sentiment |-> weighted_sentiment,
             confidence_score |-> Min(10000, (SumSeq(weight) * SumSeq(decay)) \div (n * 1000)),
             overall_sentiment |->
                 IF weighted_sentiment > 20 THEN "positive"
                 ELSE IF weighted_sentiment < 0 - 20 THEN "negative"
                 ELSE "neutral"]

\* ===================================================== EnhancedAnalysisToolkit

\* the methods class EnhancedTechnicalAnalyzer defines
TechnicalAnalyzerMethods ==
    {"calculate_technical_indicators", "format_indicators_for_analysis",
     "analyze_with_deepseek", "enhanced_technical_analysis", "_parse_stock_data"}

\* the data rows _parse_stock_data of the technical analyzer collects: rows
\* that start with a date and have at least 6 columns
Bars(stock_data) ==
    SelectSeq(stock_data.lines, LAMBDA line :
        /\ line.kind = "row" /\ Len(line.cells) >= 6
        /\ line.cells[1] = Str("date"))

\* an exception leaving a call
Raised == [kind |-> "raised"]

\* self.technical_analyzer.<method>(...): AttributeError for a method the
\* class does not define; the defined methods are not called by the toolkit
CallTechnicalAnalyzer(method) ==
    IF method \in TechnicalAnalyzerMethods THEN NoneVal ELSE Raised

\* try: results[domain] = <call> / except Exception: results[domain] = {"error": ...}
TryExceptMutant(call) == call
TryExcept(call) == IF call = Raised THEN ErrorVal ELSE call

\* the analyzer of a domain was not called
Skipped == [kind |-> "skipped"]

\* how the call of a domain's analyzer ended: not made, raised, or the value
\* it returned
CallOutcome(invoked, call) == IF invoked THEN call ELSE Skipped

\* the float metrics format_enhanced_report of the risk analyzer formats with
\* a ':.4f' / ':.1f' specification, which raises TypeError on None
FormattedRiskMetrics ==
    {"daily_volatility", "annualized_volatility", "garch_volatility",
     "volatility_clustering", "maximum_drawdown", "downside_deviation",
     "sortino_ratio", "calmar_ratio", "ulcer_index", "var_95", "var_99",
     "cvar_95", "cvar_99", "var_parametric", "var_monte_carlo",
     "volume_volatility", "bid_ask_spread", "overall_risk_score",
     "sharpe_ratio", "information_ratio"}

\* generate_enhanced_report: the sections of the succeeded domains are
\* formatted by their analyzers, without any try / except
ReportOutcome(res) ==
    IF Succeeded(res.technical_analysis)
       /\ CallTechnicalAnalyzer("format_enhanced_report") = Raised
    THEN "raised"
    ELSE IF Succeeded(res.risk_analysis)
            /\ res.risk_analysis.none_metrics \cap FormattedRiskMetrics # {}
    THEN "raised"
    ELSE "markdown"

\* ------------------------------------------------ arguments and random draws

\* number of rows of the price tables handed in, short and long
ShortRows == 10
LongRows == 30

\* a series of n values that starts at base and goes up and down in turn
Walk(n, base, up, down) ==
    [i \in 1..n |-> base + up * (i \div 2) - down * ((i - 1) \div 2)]

\* number of rows of the table printed with blanks
TableRows == 5

\* rows "date open close high low volume" for a series of closing prices
TableOf(closes) ==
    [i \in 1..Len(closes) |->
        Row(<<Str("date"), Num(closes[i]), Num(closes[i]), Num(closes[i] + 50),
              Num(closes[i] - 50), Num(1000)>>)]

TableHeader ==
    Row(<<Str("datetime"), Str("open"), Str("close"), Str("high"), Str("low"),
          Str("volume")>>)

\* rows "date,open,high,low,close,volume" for a series of closing prices
CsvRows(closes) ==
    [i \in 1..Len(closes) |->
        Csv(<<Str("date"), Num(closes[i]), Num(closes[i] + 50),
              Num(closes[i] - 50), Num(closes[i]), Num(1000)>>)]

CsvHeader ==
    Csv(<<Str("date"), Str("open"), Str("high"), Str("low"), Str("close"),
          Str("volume")>>)

\* a quote with the price and the two ratios
Quote(pe, pb) ==
    Text(<<Labelled("current_price", TRUE, Num(1050)),
           Labelled("pe", TRUE, Num(pe)), Labelled("pb", TRUE, Num(pb))>>)

StockTexts ==
    {NoneVal, Text(<<>>),
     Text(<<CsvHeader>> \o CsvRows(Walk(ShortRows, 1000, 20, 10))),
     Text(CsvRows(Walk(ShortRows, 1000, 20, 10))),
     Text(<<TableHeader>> \o TableOf(Walk(TableRows, 1000, 20, 10))),
     Text(TableOf(Walk(TableRows, 1000, 20, 10))),
     Text(CsvRows(Walk(LongRows, 10000, 100, 0 - 100))),
     Text(CsvRows(Walk(LongRows, 10000, 300, 200))),
     Text(CsvRows(Walk(LongRows, 10000, 0, 0))),
     Quote(1200, 150), Quote(2000, 300), Quote(3500, 300),
     Text(<<Labelled("current_price", TRUE, Num(1050))>>),
     Text(<<Labelled("current_price", TRUE, Num(1050)),
            Labelled("pe", TRUE, Num(3500))>>),
     Text(<<Labelled("current_price", TRUE, Num(1050)),
            Labelled("pe", FALSE, Num(1200)), Labelled("pb", TRUE, Num(150))>>),
     Text(<<Labelled("pe", FALSE, Num(1200))>>)}

FundamentalsTexts ==
    {NoneVal, Text(<<>>), Text(<<Labelled("debt_to_equity", TRUE, Num(45))>>)}

MarketTexts == {NoneVal, Text(CsvRows(Walk(ShortRows, 300000, 1000, 500)))}

\* one news item of 标题 / 来源 / 时间 lines
NewsItem(w, keys, time) ==
    <<Labelled("title", TRUE, Words(w)), Labelled("source", TRUE, Source(keys)),
      Labelled("time", TRUE, time)>>

StrongNews ==
    NewsItem(<<"limit_up", "policy", "regulation", "earnings", "merger">>,
             {"cctv_news"}, Ago("hours", 2)) \o <<Blank>>

NewsTexts ==
    {NoneVal, Text(<<>>), Text(<<Blank, Blank>>),
     Text(NewsItem(<<"rise", "figure">>, {"finance", "sina_finance"}, Ago("days", 2))),
     Text(NewsItem(<<"announce">>, {}, Ago("days", 45))),
     Text(NewsItem(<<"fall", "risk">>, {}, Ago("days", 0 - 1)) \o <<Blank>>
          \o <<Plain(TRUE, FALSE, <<"announce">>), Plain(FALSE, TRUE, <<"limit_down">>)>>),
     Text(StrongNews \o StrongNews \o StrongNews \o StrongNews \o StrongNews)}

\* what one call draws at random: the simulated walk of 60 prices, the 30
\* simulated volumes (in thousands), the market's beta and correlation
Draws ==
    {[prices |-> p, volumes |-> v, market |-> m] :
        p \in {Walk(MockPricePoints, 10000, 200, 190),
               Walk(MockPricePoints, 10000, 150, 250)},
        v \in {Walk(30, 400, 50, 50), Walk(30, 1200, 100, 100),
               Walk(30, 100, 1500, 1500)},
        m \in {[beta |-> 50, correlation |-> 30], [beta |-> 100, correlation |-> 90],
               [beta |-> 160, correlation |-> 90]}}

\* ------------------------------------------------------------------ actions

Init ==
    /\ pc = "idle"
    /\ args = NoneVal
    /\ results = EmptyResults
    /\ outcome = NoneVal
    /\ report = "none"

\* comprehensive_analysis(ticker, stock_data, fundamentals_data, news_data,
\* market_data): the four analyses, then summary, recommendation and quality
ComprehensiveAnalysis ==
    /\ pc = "idle"
    /\ \E stock_data \in StockTexts, fundamentals_data \in FundamentalsTexts,
          market_data \in MarketTexts, drawn \in Draws :
       \E technical \in {CallTechnicalAnalyzer("analyze_stock_data")},
          fundamentals \in {AnalyzeFundamentals(stock_data, fundamentals_data)},
          risk \in {AnalyzeRiskMetrics(stock_data, market_data,
                                       fundamentals_data, drawn)} :
       \E news_data \in NewsTexts :
       \E sentiment \in {AnalyzeNewsSentiment(news_data)} :
       \E analysed \in
              {[EmptyResults EXCEPT
                  !.technical_analysis =
                      IF Truthy(stock_data) THEN TryExcept(technical) ELSE NoneVal,
                  !.fundamentals_analysis = TryExcept(fundamentals),
                  !.sentiment_analysis =
                      IF Truthy(news_data) THEN TryExcept(sentiment) ELSE NoneVal,
                  !.risk_analysis = TryExcept(risk)]} :
       \E summarised \in
              {[analysed EXCEPT !.comprehensive_summary =
                   GenerateComprehensiveSummary(analysed)]} :
       \E recommended \in
              {[summarised EXCEPT !.investment_recommendation =
                   GenerateInvestmentRecommendation(summarised)]} :
          /\ args' = [stock_data |-> stock_data,
                      fundamentals_data |-> fundamentals_data,
                      news_data |-> news_data, market_data |-> market_data]
          /\ outcome' =
               [technical_analysis |-> CallOutcome(Truthy(stock_data), technical),
                fundamentals_analysis |-> CallOutcome(TRUE, fundamentals),
                sentiment_analysis |-> CallOutcome(Truthy(news_data), sentiment),
                risk_analysis |-> CallOutcome(TRUE, risk)]
          /\ results' = [recommended EXCEPT !.analysis_quality =
                            AssessAnalysisQuality(recommended)]
    /\ pc' = "analysed"
    /\ UNCHANGED report

\* generate_enhanced_report(analysis_results) on the results just returned
GenerateEnhancedReport ==
    /\ pc = "analysed"
    /\ report' = ReportOutcome(results)
    /\ pc' = "reported"
    /\ UNCHANGED <<args, results, outcome>>

Next == ComprehensiveAnalysis \/ GenerateEnhancedReport

Spec == Init /\ [][Next]_vars

\* =================================================== EnhancedTechnicalAnalyzer
\* A DataFrame is the set of its columns and its Close column, in hundredths.
\* Averages are integers in 1e-6; the values of the MACD entry are in 1e-4.

Frame(columns, close) == [kind |-> "frame", columns |-> columns, close |-> close]

\* the float product a * b of a value a and a factor b in 1e-6, by thousands
MulFix(a, b) ==
    (a \div 1000) * (b \div 1000)
    + ((a \div 1000) * (b % 1000) + (a % 1000) * (b \div 1000)
       + ((a % 1000) * (b % 1000)) \div 1000) \div 1000

\* the float quotient n / d in 1e-6, two decimals at a time
DivFix(n, d) ==
    LET r0 == n % d
        r1 == (r0 * 100) % d
        r2 == (r1 * 100) % d
    IN (n \div d) * 1000000 + ((r0 * 100) \div d) * 10000
       + ((r1 * 100) \div d) * 100 + (r2 * 100) \div d

\* ewm(span).mean() of pandas (adjust=True) weighs x[i] by w^(hi - i), with
\* w = (span - 1) / (span + 1).  Of x[lo..hi]: the weighted sum n, the sum of
\* the weights d and w^(hi - lo + 1), by halves.
RECURSIVE EwmParts(_, _, _, _)
EwmParts(x, lo, hi, span) ==
    IF lo = hi
    THEN [n |-> x[lo], d |-> 1000000, w |-> ((span - 1) * 1000000) \div (span + 1)]
    ELSE LET mid == (lo + hi) \div 2
             first == EwmParts(x, lo, mid, span)
             second == EwmParts(x, mid + 1, hi, span)
         IN [n |-> MulFix(first.n, second.w) + second.n,
             d |-> MulFix(first.d, second.w) + second.d,
             w |-> MulFix(first.w, second.w)]

EwmMutant(x, t, span) ==
    LET parts == EwmParts(x, 1, t, 12) IN DivFix(parts.n, parts.d)

\* x.ewm(span=span).mean().iloc[t - 1]
Ewm(x, t, span) ==
    LET parts == EwmParts(x, 1, t, span) IN DivFix(parts.n, parts.d)

\* round(v, 4) of a value in 1e-6, to the nearest 1e-4 (halves to even)
Round4(v) ==
    LET q == v \div 100
        r == v % 100
    IN IF r > 50 \/ (r = 50 /\ q % 2 = 1) THEN q + 1 ELSE q

\* the float nan
NaN == [kind |-> "nan"]

\* calculate_technical_indicators(df)
CalculateTechnicalIndicators(df) ==
    LET close == df.close
        len == Len(close)
        \* rolling(5).mean() at the last and at the last but one bar
        ma5_trend ==
            IF len >= 6 /\ SumRange(close, len - 4, len) > SumRange(close, len - 5, len - 1)
            THEN "up" ELSE "down"
        \* delta.where(delta > 0, 0) and -delta.where(delta < 0, 0), summed
        \* over the window of 14 (the first delta, nan, counts as 0)
        first == IF len - 13 > 2 THEN len - 13 ELSE 2
        gain == SumRange([i \in 1..len |->
                    IF i >= first /\ close[i] > close[i - 1]
                    THEN close[i] - close[i - 1] ELSE 0], 1, len)
        loss == SumRange([i \in 1..len |->
                    IF i >= first /\ close[i] < close[i - 1]
                    THEN close[i - 1] - close[i] ELSE 0], 1, len)
        \* rs = gain / loss is nan for 0 / 0 and inf for gain / 0;
        \* 100 - 100 / (1 + rs) = 100 * gain / (gain + loss), in hundredths
        rsi == IF gain = 0 /\ loss = 0
               THEN [value |-> NaN, signal |-> "neutral"]
               ELSE [value |-> Num((20000 * gain + gain + loss) \div (2 * (gain + loss))),
                     signal |-> IF 100 * gain > 70 * (gain + loss) THEN "overbought"
                                ELSE IF 100 * gain < 30 * (gain + loss) THEN "oversold"
                                ELSE "neutral"]
        price == [i \in 1..len |-> close[i] * 10000]
        macd_line == [t \in 1..len |-> Ewm(price, t, 12) - Ewm(price, t, 26)]
        signal_line == Ewm(macd_line, len, 9)
        macd == [macd_line |-> Round4(macd_line[len]),
                 signal_line |-> Round4(signal_line),
                 histogram |-> Round4(macd_line[len] - signal_line),
                 signal |-> IF macd_line[len] > signal_line
                            THEN "bullish" ELSE "bearish"]
    IN IF len < 5 THEN ErrorVal
       \* df['Close'], df['High'], df['Low']: KeyError, caught by the except
       ELSE IF ~({"Close", "High", "Low"} \subseteq df.columns) THEN ErrorVal
       ELSE [kind |-> "ok",
             categories |->
                 {"price_info", "moving_averages", "ema", "support_resistance"}
                 \cup (IF len >= 14 THEN {"rsi", "atr"} ELSE {})
                 \cup (IF len >= 26 THEN {"macd"} ELSE {})
                 \cup (IF len >= 20 THEN {"bollinger_bands"} ELSE {})
                 \cup (IF "Volume" \in df.columns THEN {"volume"} ELSE {}),
             ma5_trend |-> ma5_trend,
             rsi |-> IF len >= 14 THEN rsi ELSE NoneVal,
             macd |-> IF len >= 26 THEN macd ELSE NoneVal]

\* the frames handed to calculate_technical_indicators: closing prices that
\* are flat, rise or fall by a constant step, zigzag, or jump and then creep
\* up, over 4 to 252 bars, with all columns or with some missing
TechnicalFrames ==
    {Frame(columns, close) :
        columns \in {{"Open", "Close", "High", "Low", "Volume"},
                     {"Open", "Close", "High", "Low"},
                     {"Open", "Close", "Low", "Volume"},
                     {"Close", "Volume"}},
        close \in {Walk(n, 200, 0, 0) : n \in {4, 5, 13, 14, 30, 252}}
                  \cup {Walk(n, 100, a, 0 - a) : n \in {6, 26, 30}, a \in {1, 3, 10}}
                  \cup {Walk(252, 100, 1, 0 - 1), Walk(252, 400, 0 - 1, 1),
                        Walk(30, 400, 0 - 5, 5), Walk(25, 300, 20, 10),
                        Walk(30, 300, 20, 10), Walk(30, 300, 10, 20),
                        Walk(252, 300, 7, 7), Walk(28, 100, 7, 5),
                        Walk(26, 100, 20, 0 - 1), Walk(30, 100, 20, 0 - 1),
                        <<100>> \o Walk(29, 400, 1, 0 - 1),
                        <<100, 103>> \o Walk(28, 110, 2, 0 - 2)}}

\* ---- calculate_technical_indicators applied to any frame

InitTechnical ==
    /\ pc = "technical_input"
    /\ args \in TechnicalFrames
    /\ results = NoneVal
    /\ outcome = NoneVal
    /\ report = "none"

ApplyTechnical ==
    /\ pc = "technical_input"
    /\ results' = CalculateTechnicalIndicators(args)
    /\ pc' = "technical_done"
    /\ UNCHANGED <<args, outcome, report>>

SpecTechnical == InitTechnical /\ [][ApplyTechnical]_vars

\* ========================================= _calculate_var_metrics, in floats
\* The percentile and the tail mean are rounded as floating point rounds them.
\* A float is an integer number of units of 2^-(Precision + 6), rounded to
\* Precision significant bits, halves to even; the program's floats have 53.

Precision == 13

\* one, in units
One == 2 ^ (Precision + 6)

\* n / d rounded to the nearest float, for d > 0
FlDiv(n, d) ==
    LET a == IF n < 0 THEN 0 - n ELSE n
        RECURSIVE Quantum(_)
        Quantum(q) == IF (a \div d) \div q < 2 ^ Precision THEN q ELSE Quantum(2 * q)
        step == d * Quantum(1)
        m == a \div step
        rest == a % step
        rounded == IF 2 * rest > step \/ (2 * rest = step /\ m % 2 = 1)
                   THEN m + 1 ELSE m
    IN (IF n < 0 THEN 0 - 1 ELSE 1) * rounded * Quantum(1)

\* np.diff(prices) / prices[:-1]
FloatReturns(prices) ==
    [i \in 1..(Len(prices) - 1) |-> FlDiv((prices[i + 1] - prices[i]) * One, prices[i])]

\* the sum np.mean forms of up to 128 values: one after the other below 8
\* values, else eight running sums, their tree, then the values left over
PairwiseSum(a) ==
    LET n == Len(a)
        RECURSIVE Accumulate(_, _, _, _)
        Accumulate(i, by, last, acc) ==
            IF i > last THEN acc
            ELSE Accumulate(i + by, by, last, FlDiv(acc + a[i], 1))
        whole == n - (n % 8)
        r(j) == Accumulate(j + 8, 8, whole, a[j])
        add(x, y) == FlDiv(x + y, 1)
    IN IF n < 8 THEN Accumulate(1, 1, n, 0)
       ELSE Accumulate(whole + 1, 1, n,
                       add(add(add(r(1), r(2)), add(r(3), r(4))),
                           add(add(r(5), r(6)), add(r(7), r(8)))))

\* _calculate_var_metrics: the historical VaR and CVaR at 95% and 99%
CalculateVarMetrics(returns) ==
    LET n == Len(returns)
        sorted(i) == CHOOSE v \in {returns[j] : j \in 1..n} :
                        /\ Cardinality({j \in 1..n : returns[j] < v}) < i
                        /\ i <= Cardinality({j \in 1..n : returns[j] <= v})
        \* np.percentile(returns, q): linear interpolation at (n - 1) * q / 100
        percentile(q) ==
            LET at == ((n - 1) * q) \div 100
                t == ((n - 1) * q) % 100
                lower == sorted(at + 1)
                upper == sorted(IF t = 0 THEN at + 1 ELSE at + 2)
                diff == FlDiv(upper - lower, 1)
            IN IF 2 * t < 100
               THEN FlDiv(lower + FlDiv(diff * t, 100), 1)
               ELSE FlDiv(upper - FlDiv(diff * (100 - t), 100), 1)
        cvar(threshold) ==
            LET tail == SelectSeq(returns, LAMBDA r : r <= threshold)
            IN IF Len(tail) > 0
               THEN Num(FlDiv(PairwiseSum(tail), Len(tail)))
               ELSE NoneVal
    IN [var_95 |-> percentile(5), var_99 |-> percentile(1),
        cvar_95 |-> cvar(percentile(5)), cvar_99 |-> cvar(percentile(1))]

\* a series that falls from high to low `falls` times, each time coming
\* back, and then rises by 1 a bar up to n prices
FallsThenRises(high, low, falls, n) ==
    [i \in 1..n |->
        IF i <= 2 * falls THEN (IF i % 2 = 1 THEN high ELSE low)
        ELSE high + (i - 2 * falls - 1)]

InitVar ==
    /\ pc = "var_input"
    /\ args \in {FallsThenRises(100, low, falls, n) :
                    low \in {80, 90, 91, 95, 97, 99}, falls \in 1..7, n \in {30, 31, 45}}
    /\ results = NoneVal
    /\ outcome = NoneVal
    /\ report = "none"

ApplyVar ==
    /\ pc = "var_input"
    /\ results' = CalculateVarMetrics(FloatReturns(args))
    /\ pc' = "var_done"
    /\ UNCHANGED <<args, outcome, report>>

SpecVar == InitVar /\ [][ApplyVar]_vars

\* ------------------------------------- analyze_news_sentiment on one article
\* results holds the articles parsed from the text and the analysis of them.

\* what the first line of the article can be: a 标题: line, or a line without
\* label that has a colon or not and is longer than 20 characters or not
FirstLines ==
    {Labelled("title", TRUE, Words(<<"announce">>)),
     Plain(TRUE, FALSE, <<"announce">>), Plain(TRUE, TRUE, <<"policy">>),
     Plain(FALSE, TRUE, <<"rise">>), Plain(FALSE, FALSE, <<"announce">>)}

\* 来源 values: unknown, 新浪财经 (which contains 财经), 财经网, 央视新闻
NewsSources ==
    {Source({}), Source({"finance", "sina_finance"}), Source({"finance"}),
     Source({"cctv_news"})}

\* 时间 values: the four markers with and without digits, a calendar date,
\* 昨天, and nothing
NewsTimes ==
    {Ago(unit, n) : unit \in {"hours", "days", "weeks", "months"},
                    n \in {0 - 1, 0, 1, 2, 3, 7, 8, 14, 15, 24, 30, 31}}
    \cup {Str("date"), Str("yesterday"), Str("")}

InitNews ==
    /\ pc = "news_input"
    /\ args \in {Text(<<first, Labelled("source", TRUE, source),
                        Labelled("time", TRUE, time)>>) :
                    first \in FirstLines, source \in NewsSources, time \in NewsTimes}
    /\ results = NoneVal
    /\ outcome = NoneVal
    /\ report = "none"

ApplyNews ==
    /\ pc = "news_input"
    /\ results' = [news_items |-> ParseNewsData(args),
                   analysis |-> AnalyzeNewsSentiment(args)]
    /\ pc' = "news_done"
    /\ UNCHANGED <<args, outcome, report>>

SpecNews == InitNews /\ [][ApplyNews]_vars

\* ----------------------------------------------------------------
\* EnhancedAnalystNode.process and its analysis_cache
\* (agents/analysts/enhanced_analyst.py).  ReActAgent.arun and the data
\* helpers never suspend, so one call of process runs from its first line to
\* its return without another call in between.  Under SpecAnalyst
\*   pc      = "serving"
\*   args    = the message of the last call
\*   outcome = the value the last call returned
\*   results = analysis_cache, a function from cache keys to stored results
\*   report  = [today, toolkit, served, fetches]: the calendar date, whether
\*             __init__ built self.toolkit, the number of calls of process
\*             and the number of calls of _get_stock_data so far

MaxDate == 2
MaxRequests == 4

\* message["ticker"]; "" stands for a missing or empty ticker
Tickers == {"", "000001", "AAPL"}

\* message.get("query", "")
Queries == {"", "valuation"}

\* what _get_stock_data hands back: "" when nothing could be fetched
StockFeeds == {"", "quotes"}

ErrorResult(why) == [kind |-> "error", error |-> why]

CacheKeyMutant(ticker, date) == <<"any", date>>

\* cache_key = f"{ticker}_{date}"
CacheKey(ticker, date) == <<ticker, date>>

\* the result dict of the toolkit path: enhanced_analysis and
\* enhanced_report are determined by the fetched data, deepseek_analysis by
\* the prompt made of ticker, report and query
ToolkitResult(message, stock_data, date) ==
    [kind |-> "toolkit", ticker |-> message.ticker, analysis_date |-> date,
     enhanced_analysis |-> stock_data,
     deepseek_analysis |-> [report |-> stock_data, query |-> message.query]]

\* _fallback_to_react_agent: the agent's answer to the prompt
FallbackToReactAgent(message, stock_data, date) ==
    [kind |-> "react", ticker |-> message.ticker, analysis_date |-> date,
     react_agent_analysis |-> [data |-> stock_data, query |-> message.query]]

\* what process returns after a cache miss
Computed(message, stock_data, raised, toolkit, date) ==
    IF stock_data = "" THEN ErrorResult("no_stock_data")
    ELSE IF raised THEN ErrorResult("exception")
    ELSE IF toolkit THEN ToolkitResult(message, stock_data, date)
    ELSE FallbackToReactAgent(message, stock_data, date)

StoredMutant(cache, key, result) ==
    [k \in DOMAIN cache \cup {key} |-> IF k = key THEN result ELSE cache[k]]

\* analysis_cache when process returns: only the toolkit path stores
Stored(cache, key, result) ==
    IF result.kind = "toolkit"
        THEN [k \in DOMAIN cache \cup {key} |->
                 IF k = key THEN result ELSE cache[k]]
        ELSE cache

InitAnalyst ==
    /\ pc = "serving"
    /\ args = NoneVal
    /\ outcome = NoneVal
    /\ results = << >>
    /\ report \in [today : {1}, toolkit : BOOLEAN, served : {0}, fetches : {0}]

\* process(message); the date may change between the cache lookup and the
\* analysis_date of the result
Process ==
    /\ report.served < MaxRequests
    /\ \E ticker \in Tickers, query \in Queries, stock_data \in StockFeeds,
          raised \in BOOLEAN,
          finished \in {d \in 1..MaxDate : d - report.today \in {0, 1}} :
        \E message \in {[ticker |-> ticker, query |-> query]},
           cache_key \in {CacheKey(ticker, report.today)} :
            /\ args' = message
            /\ IF ticker = ""
                  THEN /\ outcome' = ErrorResult("missing_ticker")
                       /\ report' = [report EXCEPT !.served = @ + 1]
                       /\ UNCHANGED results
               ELSE IF cache_key \in DOMAIN results
                  THEN /\ outcome' = results[cache_key]
                       /\ report' = [report EXCEPT !.served = @ + 1]
                       /\ UNCHANGED results
               ELSE \E result \in {Computed(message, stock_data, raised,
                                            report.toolkit, finished)} :
                       /\ outcome' = result
                       /\ results' = Stored(results, cache_key, result)
                       /\ report' = [report EXCEPT !.served = @ + 1,
                                                   !.fetches = @ + 1,
                                                   !.today = finished]
    /\ UNCHANGED pc

\* datetime.now() moves to the next day between two calls
Midnight ==
    /\ report.today < MaxDate
    /\ report' = [report EXCEPT !.today = @ + 1]
    /\ UNCHANGED <<pc, args, results, outcome>>

NextAnalyst == Process \/ Midnight

SpecAnalyst == InitAnalyst /\ [][NextAnalyst]_vars

\* ================================================================= claims

\* C1: for every overall_score the recommendation carries exactly one rating:
\* strong_buy iff score >= 80, buy iff 65 <= score < 80, hold iff
\* 50 <= score < 65, reduce iff 35 <= score < 50, sell iff score < 35.
C1_RatingLadder ==
    pc = "recommend_done" =>
        LET h == results.comprehensive_summary.overall_score * 100
            r == results.investment_recommendation.rating
        IN /\ r \in {"strong_buy", "buy", "hold", "reduce", "sell"}
           /\ (r = "strong_buy") <=> (h >= 8000 * Pt)
           /\ (r = "buy") <=> (6500 * Pt <= h /\ h < 8000 * Pt)
           /\ (r = "hold") <=> (5000 * Pt <= h /\ h < 6500 * Pt)
           /\ (r = "reduce") <=> (3500 * Pt <= h /\ h < 5000 * Pt)
           /\ (r = "sell") <=> (h < 3500 * Pt)

\* C1 witness: the score 79.99 has been rated, and rated buy
C1_Witness ==
    /\ pc = "recommend_done"
    /\ results.comprehensive_summary.overall_score * 100 = 7999 * Pt
    /\ results.investment_recommendation.rating = "buy"

\* C2: overall_score is the arithmetic mean of the sub-scores that are
\* strictly greater than 0, and 0 when none is.
C2_OverallIsMeanOfPositive ==
    pc = "summary_done" =>
        LET sm == results.comprehensive_summary
            sub == <<sm.technical_score, sm.fundamentals_score,
                     sm.sentiment_score, sm.risk_score>>
            pos == {i \in 1..4 : sub[i] > 0}
            total == SumSeq([i \in 1..4 |-> IF i \in pos THEN sub[i] ELSE 0])
        IN IF pos = {}
           THEN sm.overall_score = 0
           ELSE sm.overall_score * Cardinality(pos) = total

\* C2 witness: a summary with two sub-scores at 0 and two different positive
\* ones (fundamentals 100, risk 59.5), whose mean is 79.75
C2_Witness ==
    /\ pc = "summary_done"
    /\ results.comprehensive_summary.technical_score = 0
    /\ results.comprehensive_summary.sentiment_score = 0
    /\ results.comprehensive_summary.fundamentals_score = 100 * Pt
    /\ results.comprehensive_summary.risk_score * 10 = 595 * Pt
    /\ results.comprehensive_summary.overall_score * 100 = 7975 * Pt

\* C3: in every result of comprehensive_analysis in which at least one
\* domain analysis succeeded, the four sub-scores and overall_score lie within
\* [0, 100].
C3_ScoresWithinRange ==
    pc # "idle" /\ (\E i \in 1..Len(Domains) : Succeeded(results[Domains[i]])) =>
        LET sm == results.comprehensive_summary
        IN \A score \in {sm.technical_score, sm.fundamentals_score,
                         sm.sentiment_score, sm.risk_score, sm.overall_score} :
              0 <= score /\ score <= 100 * Pt

\* C3 witness: an undervalued stock with a financial health of 100, whose
\* fundamentals_score min(100, 100 + 20) sits on the upper end of the range,
\* next to a succeeded risk analysis
C3_Witness ==
    /\ pc = "analysed"
    /\ Succeeded(results.fundamentals_analysis)
    /\ results.fundamentals_analysis.valuation_level = "undervalued"
    /\ results.fundamentals_analysis.health_score = 100
    /\ results.comprehensive_summary.fundamentals_score = 100 * Pt
    /\ Succeeded(results.risk_analysis)
    /\ results.comprehensive_summary.risk_score > 0

\* C4: whatever the outcomes of the four analyzers (a result, an {error}
\* record, a raised exception), the other analyzers are still called (the
\* technical and the sentiment analyzer whenever their own text is non-empty,
\* the other two always), a domain whose call raised holds an {error} record,
\* a domain whose call returned holds what it returned (its result or its
\* {error} record), and comprehensive_summary, investment_recommendation and
\* analysis_quality are all populated.
C4_PartialResultTolerance ==
    pc # "idle" =>
        /\ \A i \in 1..Len(Domains) :
              LET d == Domains[i]
              IN results[d] = (IF outcome[d] = Skipped THEN NoneVal
                               ELSE IF outcome[d] = Raised THEN ErrorVal
                               ELSE outcome[d])
        /\ (outcome.technical_analysis # Skipped) <=> Truthy(args.stock_data)
        /\ (outcome.sentiment_analysis # Skipped) <=> Truthy(args.news_data)
        /\ outcome.fundamentals_analysis # Skipped
        /\ outcome.risk_analysis # Skipped
        /\ results.comprehensive_summary.kind = "ok"
        /\ results.investment_recommendation.kind = "ok"
        /\ results.analysis_quality.kind = "ok"

\* C4 witness: the technical call raised, the fundamentals analyzer returned
\* an {error} record, and the sentiment and the risk analyzer succeeded
C4_Witness ==
    /\ pc = "analysed"
    /\ outcome.technical_analysis = Raised
    /\ results.technical_analysis = ErrorVal
    /\ outcome.fundamentals_analysis = ErrorVal
    /\ Succeeded(results.sentiment_analysis)
    /\ Succeeded(results.risk_analysis)
    /\ results.analysis_quality.limitations =
           <<"technical_analysis", "fundamentals_analysis">>

\* C5 (as claimed): generate_enhanced_report returns Markdown and never
\* raises, for every result comprehensive_analysis can return, whichever
\* metrics of a succeeded domain are None.
C5_ReportNeverRaisesClaim ==
    pc = "reported" => report = "markdown"

\* C6 (as claimed): when each of the four texts is absent or empty, the result
\* has overall_score 0, overall_quality fair (一般) and rating sell (卖出).
C6_NoInputsClaim ==
    (/\ pc # "idle"
     /\ ~Truthy(args.stock_data) /\ ~Truthy(args.fundamentals_data)
     /\ ~Truthy(args.news_data) /\ ~Truthy(args.market_data)) =>
        /\ results.comprehensive_summary.overall_score = 0
        /\ results.analysis_quality.overall_quality = "fair"
        /\ results.investment_recommendation.rating = "sell"

\* C7 (as claimed): given a price text with an OHLCV table of at least 5
\* bars (the rows the technical analyzer computes its indicators from), technical_analysis is a non-error result and the technical domain is
\* not among the limitations that lower analysis_coverage.
C7_TechnicalAvailableClaim ==
    (/\ pc # "idle"
     /\ Truthy(args.stock_data)
     /\ Len(Bars(args.stock_data)) >= 5) =>
        /\ Succeeded(results.technical_analysis)
        /\ \A i \in 1..Len(results.analysis_quality.limitations) :
              results.analysis_quality.limitations[i] # "technical_analysis"

\* C8 (as claimed): when the technical analysis succeeded, technical_score
\* is 100 times the bullish share of its signals, and 50 when it carries no
\* signals.
C8_TechnicalScoreClaim ==
    pc = "summary_done" /\ Succeeded(results.technical_analysis) =>
        LET tech == results.technical_analysis
            score == results.comprehensive_summary.technical_score
        IN IF Len(tech.signals) > 0
           THEN score * Len(tech.signals) = BullishCount(tech.signals) * 100 * Pt
           ELSE score = 50 * Pt

\* C9 (as claimed): fundamentals_score is min(100, health + 20) for
\* undervalued, health for fair, max(0, health - 20) for overvalued, and
\* health unchanged for any other valuation level.
C9_FundamentalsScoreClaim ==
    pc = "summary_done" /\ Succeeded(results.fundamentals_analysis) =>
        LET fund == results.fundamentals_analysis
            score == results.comprehensive_summary.fundamentals_score
        IN score = Pt * (CASE fund.valuation_level = "undervalued" ->
                                Min(100, fund.health_score + 20)
                           [] fund.valuation_level = "overvalued" ->
                                Max(0, fund.health_score - 20)
                           [] OTHER -> fund.health_score)

\* the position tiers from largest to smallest, and the tier one lower
PositionTiers == <<"heavy", "standard", "light", "reduced", "cleared">>

TierOfRating(rating) ==
    CASE rating = "strong_buy" -> 1 [] rating = "buy" -> 2
      [] rating = "hold" -> 3 [] rating = "reduce" -> 4 [] OTHER -> 5

\* C10 (as claimed): position_size mirrors the rating, and with a succeeded
\* risk analysis of risk_level high it is exactly one tier lower, for every
\* rating (the lowest tier has none below it and stays).
C10_PositionSizeClaim ==
    pc = "recommend_done" =>
        LET rec == results.investment_recommendation
            risk == results.risk_analysis
            tier == TierOfRating(rec.rating)
        IN rec.position_size =
              IF Succeeded(risk) /\ risk.risk_level = "high"
              THEN PositionTiers[Min(5, tier + 1)]
              ELSE PositionTiers[tier]

\* C11: analysis_coverage is 25 times the number of domains whose analysis is
\* present and carries no error; overall_quality is excellent (优秀) from a
\* coverage of 75, good (良好) from 50 and fair (一般) below; limitations
\* holds exactly one entry per unavailable domain.
C11_QualityAssessment ==
    pc # "idle" =>
        LET quality == results.analysis_quality
            available == {i \in 1..Len(Domains) : Succeeded(results[Domains[i]])}
            entries(d) == {k \in 1..Len(quality.limitations) :
                              quality.limitations[k] = d}
        IN /\ quality.analysis_coverage = 25 * Cardinality(available)
           /\ quality.overall_quality =
                 (IF quality.analysis_coverage >= 75 THEN "excellent"
                  ELSE IF quality.analysis_coverage >= 50 THEN "good"
                  ELSE "fair")
           /\ \A i \in 1..Len(Domains) :
                 Cardinality(entries(Domains[i])) = (IF i \in available THEN 0 ELSE 1)

\* C11 witness: three of the four domains are available, on the lower edge
\* of excellent, and the one limitation is the technical analysis
C11_Witness ==
    /\ pc = "analysed"
    /\ results.analysis_quality.analysis_coverage = 75
    /\ results.analysis_quality.overall_quality = "excellent"
    /\ results.analysis_quality.limitations = <<"technical_analysis">>

\* C12: calculate_technical_indicators returns an error for fewer than 5
\* bars; from 5 bars on a missing column or a series shorter than a window
\* never fails the call: the result holds exactly the categories whose
\* columns are present and whose window the series fills.
C12_PartialIndicatorsClaim ==
    pc = "technical_done" =>
        LET len == Len(args.close)
            ranged == {"High", "Low", "Close"} \subseteq args.columns
            computable ==
                (IF "Close" \in args.columns
                 THEN {"moving_averages", "ema"}
                          \cup (IF len >= 14 THEN {"rsi"} ELSE {})
                          \cup (IF len >= 20 THEN {"bollinger_bands"} ELSE {})
                          \cup (IF len >= 26 THEN {"macd"} ELSE {})
                 ELSE {})
                \cup (IF ranged THEN {"price_info", "support_resistance"} ELSE {})
                \cup (IF ranged /\ len >= 14 THEN {"atr"} ELSE {})
                \cup (IF "Volume" \in args.columns THEN {"volume"} ELSE {})
        IN IF len < 5
           THEN results = ErrorVal
           ELSE Succeeded(results) /\ results.categories = computable

\* C13: valuation_level is undervalued (低估) when PE < 15 and PB < 2,
\* overvalued (高估) when PE > 30 or PB > 5, and fair (合理) otherwise; a PE
\* above 30 gives overvalued whatever PB is and whether or not PB is given.
C13_ValuationLevelClaim ==
    (pc # "idle" /\ Succeeded(results.fundamentals_analysis)) =>
        LET pe == results.fundamentals_analysis.price_info.pe_ratio
            pb == results.fundamentals_analysis.price_info.pb_ratio
            level == results.fundamentals_analysis.valuation_level
            low == pe.kind = "num" /\ pb.kind = "num" /\ pe.v < 1500 /\ pb.v < 200
            high == \/ pe.kind = "num" /\ pe.v > 3000
                    \/ pb.kind = "num" /\ pb.v > 500
        IN /\ low => level = "undervalued"
           /\ high => level = "overvalued"
           /\ (pe.kind = "num" /\ pb.kind = "num" /\ ~low /\ ~high) => level = "fair"

\* C14: for every price text analyze_fundamentals returns a partial result
\* rather than an error: a line with a recognized label but no value after
\* a colon leaves its field null, and the fields parsed from the other lines
\* are kept.
C14_PartialFundamentalsClaim ==
    (pc # "idle" /\ args.stock_data.kind = "text") =>
        LET returned == outcome.fundamentals_analysis
            valued == SelectSeq(args.stock_data.lines, HasColon)
        IN /\ Succeeded(returned)
           /\ \A key \in {"current_price", "pe_ratio", "pb_ratio", "volume"} :
                 returned.price_info[key] = LastValue(valued, key)

\* C15: analyze_risk_metrics returns an error whenever fewer than 30 price
\* points are parsed from the price text, and computes metrics only from 30
\* or more parsed points.
C15_MinimumPricePointsClaim ==
    pc # "idle" =>
        LET parsed == IF args.stock_data.kind = "text"
                      THEN Len(PricesOf(args.stock_data.lines))
                      ELSE 0
            returned == outcome.risk_analysis
        IN /\ parsed < MinPricePoints => returned = ErrorVal
           /\ Succeeded(returned) =>
                 /\ parsed >= MinPricePoints
                 /\ returned.price_data_points = parsed

\* ------------------------------------------ analyze_risk_metrics, called twice
\* The caller keeps its arguments and calls analyze_risk_metrics again; every
\* call draws its own random numbers.  results is the sequence of the values
\* returned so far.

InitRisk ==
    /\ pc = "risk_input"
    /\ args \in {[stock_data |-> stock_data, market_data |-> market_data,
                  fundamentals_data |-> NoneVal] :
                    stock_data \in {Text(CsvRows(Walk(LongRows, 10000, 100, 0 - 100))),
                                    Text(CsvRows(Walk(LongRows, 10000, 300, 200))),
                                    Text(CsvRows(Walk(LongRows, 10000, 0, 0))),
                                    Text(CsvRows(Walk(ShortRows, 1000, 20, 10)))},
                    market_data \in MarketTexts}
    /\ results = <<>>
    /\ outcome = NoneVal
    /\ report = "none"

CallRisk ==
    /\ pc \in {"risk_input", "risk_once"}
    /\ \E drawn \in Draws :
          results' = Append(results,
                            AnalyzeRiskMetrics(args.stock_data, args.market_data,
                                               args.fundamentals_data, drawn))
    /\ pc' = IF pc = "risk_input" THEN "risk_once" ELSE "risk_twice"
    /\ UNCHANGED <<args, outcome, report>>

SpecRisk == InitRisk /\ [][CallRisk]_vars

\* C16: two calls of analyze_risk_metrics with identical arguments whose price
\* text holds at least 30 well-formed price lines return identical values for
\* every output other than var_monte_carlo: the risk scores (from beta and
\* the liquidity score), overall_risk_score, risk_level and the risk alerts.
C16_RepeatableRiskClaim ==
    (pc = "risk_twice" /\ Len(PricesOf(args.stock_data.lines)) >= MinPricePoints) =>
        results[1] = results[2]

\* C17: when the news text yields at least one article and no article holds a
\* sentiment keyword, analyze_news_sentiment reports a weighted_sentiment of
\* 0.0, the overall sentiment neutral (中性) and a confidence_score above 0.
C17_NeutralNews ==
    (pc # "idle" /\ Succeeded(outcome.sentiment_analysis)) =>
        LET items == ParseNewsData(args.news_data)
            returned == outcome.sentiment_analysis
        IN (\A i \in 1..Len(items) :
               \A k \in 1..Len(ItemWords(items[i])) :
                   KeywordWeight(ItemWords(items[i])[k]) = 0)
           => /\ returned.weighted_sentiment = 0
              /\ returned.overall_sentiment = "neutral"
              /\ returned.confidence_score > 0

\* C17 witness: one article from an unknown source, more than 30 days old and
\* without any keyword, gives the lowest confidence, 0.005
C17_Witness ==
    /\ pc = "analysed"
    /\ Succeeded(outcome.sentiment_analysis)
    /\ outcome.sentiment_analysis.news_count = 1
    /\ outcome.sentiment_analysis.individual_scores = <<0>>
    /\ outcome.sentiment_analysis.decay_factors = <<1>>
    /\ outcome.sentiment_analysis.weighted_sentiment = 0
    /\ outcome.sentiment_analysis.confidence_score = 50

\* C18: for every series of at least 252 bars with positive closes, flat and
\* strictly monotone series included, the reported RSI is a number within
\* [0, 100].
C18_RsiWithinRangeClaim ==
    (pc = "technical_done" /\ Succeeded(results) /\ Len(args.close) >= 252) =>
        /\ results.rsi.value.kind = "num"
        /\ results.rsi.value.v >= 0
        /\ results.rsi.value.v <= 100 * 100

\* C19: in every MACD entry the histogram equals macd_line - signal_line
\* exactly, for the three values as returned, each rounded to 4 decimals.
C19_HistogramIsDifferenceClaim ==
    (pc = "technical_done" /\ Succeeded(results) /\ Len(args.close) >= 26) =>
        results.macd.histogram = results.macd.macd_line - results.macd.signal_line

\* C20 (amended): for every 30-bar series whose close is strictly increasing
\* the MA5 trend is 'up' and the RSI is 100, above 50; the MACD signal is
\* 'bullish' when the close rises by the same amount on every bar.
C20_RisingSeries ==
    LET close == args.close
        rising == \A i \in 1..(Len(close) - 1) : close[i] < close[i + 1]
        steady == \A i \in 1..(Len(close) - 2) :
                      close[i + 1] - close[i] = close[i + 2] - close[i + 1]
    IN (pc = "technical_done" /\ Succeeded(results) /\ Len(close) = 30 /\ rising) =>
          /\ results.ma5_trend = "up"
          /\ results.rsi.value = Num(100 * 100)
          /\ steady => results.macd.signal = "bullish"

\* C20 witness: 30 bars rising by 0.03 on every bar, analysed
C20_Witness ==
    /\ pc = "technical_done"
    /\ args.close = Walk(30, 100, 3, 0 - 3)
    /\ results.kind = "ok"
    /\ results.ma5_trend = "up"
    /\ results.macd.signal = "bullish"

\* C20 as stated: every strictly increasing 30-bar series gives MA5 trend
\* 'up', an RSI above 50 and the MACD signal 'bullish'.
C20_RisingSeriesClaim ==
    (/\ pc = "technical_done" /\ Succeeded(results) /\ Len(args.close) = 30
     /\ \A i \in 1..29 : args.close[i] < args.close[i + 1]) =>
        /\ results.ma5_trend = "up"
        /\ results.rsi.value.kind = "num" /\ results.rsi.value.v > 50 * 100
        /\ results.macd.signal = "bullish"

\* C21: for every return series the historical CVaR is at least as extreme
\* as the VaR of the same level, cvar_95 <= var_95 and cvar_99 <= var_99, and
\* both CVaR values are defined.
C21_CvarBeyondVarClaim ==
    pc = "var_done" =>
        /\ results.cvar_95.kind = "num" /\ results.cvar_95.v <= results.var_95
        /\ results.cvar_99.kind = "num" /\ results.cvar_99.v <= results.var_99

\* C22: every article time that is not a parsable recency marker (a calendar
\* date, 昨天, an empty string, a marker without digits) gets the default
\* time-decay factor 0.5.
C22_UnparsableTimeClaim ==
    pc = "news_done" =>
        LET time == args.lines[3].value
        IN (time.kind # "ago" \/ time.n < 0) =>
              results.analysis.decay_factors = <<5>>

\* C23: 'N周前' (weeks) and 'N月前' (months) time strings get the decay
\* table's factor for their age (1 week 0.6, 2 weeks 0.4, 1 month 0.2, older
\* 0.1), as the hour and day markers do, and an older marker never gets a
\* larger factor than a more recent one.
C23_WeeksAndMonthsClaim ==
    pc = "news_done" =>
        LET time == args.lines[3].value
            days(t) == CASE t.unit = "hours" -> t.n \div 24
                         [] t.unit = "days" -> t.n
                         [] t.unit = "weeks" -> 7 * t.n
                         [] t.unit = "months" -> 30 * t.n
            marker(t) == t.kind = "ago" /\ t.n >= 0
        IN /\ (marker(time) /\ time.unit \in {"weeks", "months"} /\ time.n >= 1) =>
                 results.analysis.decay_factors =
                     << IF days(time) <= 7 THEN 6
                        ELSE IF days(time) <= 14 THEN 4
                        ELSE IF days(time) <= 30 THEN 2
                        ELSE 1 >>
           /\ \A older \in NewsTimes :
                 (marker(time) /\ marker(older) /\ days(time) < days(older)) =>
                     TimeDecay(older) <= results.analysis.decay_factors[1]

\* C24: an article's impact weight is source_weight x content_weight, where
\* source_weight is the weight the table lists for the article's source (a
\* source named like a table entry, e.g. 新浪财经, gets that entry's weight)
\* and 0.5 when no entry matches, content_weight is at most 2.0, and so the
\* final weight lies in [0.5, 2.0].
C24_ImpactWeightClaim ==
    pc = "news_done" =>
        LET item == results.news_items[1]
            \* the entry the source is named like: 新浪财经 contains the
            \* entry 财经 too, and is named like the longer one
            named == IF item.source.keys \ {"finance"} # {}
                     THEN item.source.keys \ {"finance"}
                     ELSE item.source.keys
            listed == SelectSeq(SourceKeys, LAMBDA k : k[1] \in named)
            source_weight == IF listed = <<>> THEN 5 ELSE listed[1][2]
            content_weight == ContentWeight(ItemWords(item))
            final_weight == results.analysis.final_weights[1]
        IN /\ content_weight <= 20000
           /\ final_weight = source_weight * content_weight
           /\ final_weight >= 50000 /\ final_weight <= 200000

\* C25: the news text is split into records at blank lines, and in every
\* record whose first line carries no field label that line becomes the
\* record's title, whatever its length and whether or not it has a colon.
C25_FirstLineIsTitleClaim ==
    (pc = "news_done" /\ args.lines[1].kind = "plain") =>
        /\ Len(results.news_items) = 1
        /\ results.news_items[1].title = args.lines[1].value

\* C26: for a price text made of CSV rows date,open,high,low,close,volume the
\* price series the risk analyzer computes its returns from consists of the
\* rows' close values, in row order (here for texts of 30 rows or more, which
\* are not replaced by simulated prices).
C26_CloseSeriesClaim ==
    LET lines == args.stock_data.lines
        rows == \A i \in 1..Len(lines) :
                    /\ lines[i].kind = "csv" /\ Len(lines[i].cells) = 6
                    /\ \A k \in 2..6 : lines[i].cells[k].kind = "num"
    IN (/\ pc # "idle" /\ args.stock_data.kind = "text"
        /\ Len(lines) >= MinPricePoints /\ rows
        /\ Succeeded(outcome.risk_analysis)) =>
          ParsePriceData(args.stock_data, <<>>).prices
              = [i \in 1..Len(lines) |-> lines[i].cells[5].v]

\* C27: after every successful risk analysis overall_risk_score is at least
\* 40.5, so the risk level is never low (低), only mid (中) or high (高), and
\* the aggregator's risk score 100 - overall_risk_score is at most 59.5.
C27_RiskScoreFloor ==
    (pc # "idle" /\ Succeeded(outcome.risk_analysis)) =>
        /\ outcome.risk_analysis.overall_risk_score >= 4050
        /\ outcome.risk_analysis.risk_level \in {"mid", "high"}
        /\ results.comprehensive_summary.risk_score * 10 <= 595 * Pt

\* C27 witness: the floor is reached - every factor at its lowest score,
\* fundamentals text given - and the risk score is 59.5
C27_Witness ==
    /\ pc = "analysed"
    /\ Succeeded(outcome.risk_analysis)
    /\ outcome.risk_analysis.risk_scores =
          [market_risk |-> 40, volatility_risk |-> 40, downside_risk |-> 50,
           liquidity_risk |-> 50, fundamental_risk |-> 20]
    /\ outcome.risk_analysis.overall_risk_score = 4050
    /\ outcome.risk_analysis.risk_level = "mid"
    /\ results.comprehensive_summary.risk_score * 10 = 595 * Pt

\* C28: without fundamentals text the fundamental-risk factor enters the
\* composite at its highest score 100, is listed among the risk factors and
\* raises its own alert; with fundamentals text its score is 100 minus the
\* fundamental point score (80 for the values the analyzer fills in).
C28_FundamentalRiskFactor ==
    (pc # "idle" /\ Succeeded(outcome.risk_analysis)) =>
        LET risk == outcome.risk_analysis
            factors == RiskFactors(risk.risk_scores)
            listed == \E i \in 1..Len(factors) : factors[i] = "fundamental_risk"
            alerted == \E i \in 1..Len(risk.risk_alerts) :
                           risk.risk_alerts[i] = "fundamental_risk"
        IN IF Truthy(args.fundamentals_data)
           THEN risk.risk_scores.fundamental_risk = 100 - 80 /\ ~listed /\ ~alerted
           ELSE risk.risk_scores.fundamental_risk = 100 /\ listed /\ alerted

\* C28 witness: a risk analysis without fundamentals text whose only risk
\* factor above 60 is the fundamental one
C28_Witness ==
    /\ pc = "analysed"
    /\ args.fundamentals_data = NoneVal
    /\ Succeeded(outcome.risk_analysis)
    /\ outcome.risk_analysis.risk_scores.fundamental_risk = 100
    /\ RiskFactors(outcome.risk_analysis.risk_scores) = <<"fundamental_risk">>
    /\ outcome.risk_analysis.risk_alerts = <<"fundamental_risk">>

\* C29: once analysis_cache holds a toolkit result for a ticker and a
\* request date, the entry never changes, and every later call of process
\* for that ticker on that date returns the stored result, which is the one
\* for that ticker, without calling _get_stock_data or storing anything,
\* whatever its query.
C29_CachedResultReturned ==
    [][/\ \A k \in DOMAIN results :
              k \in DOMAIN results' /\ results'[k] = results[k]
       /\ (/\ report'.served = report.served + 1
           /\ args'.ticker # ""
           /\ CacheKey(args'.ticker, report.today) \in DOMAIN results) =>
              /\ outcome' = results[CacheKey(args'.ticker, report.today)]
              /\ outcome'.kind = "toolkit"
              /\ outcome'.ticker = args'.ticker
              /\ results' = results
              /\ report'.fetches = report.fetches
              /\ report'.today = report.today]_vars

\* C29 witness: a call with a query returned the result that an earlier call
\* without a query had stored for the same ticker and date
C29_Witness ==
    /\ pc = "serving"
    /\ report.toolkit
    /\ report.served = 2
    /\ report.fetches = 1
    /\ args = [ticker |-> "000001", query |-> "valuation"]
    /\ CacheKey("000001", report.today) \in DOMAIN results
    /\ outcome = results[CacheKey("000001", report.today)]
    /\ outcome.deepseek_analysis.query = ""

\* C30: analysis_cache only ever holds results of the toolkit path; a call
\* that returns an error or a ReAct fallback result leaves the cache as it
\* was and leaves no entry under its own key, so the same request is
\* computed again when it is repeated.
C30_OnlyToolkitResultsCached ==
    [][/\ \A k \in DOMAIN results' : results'[k].kind = "toolkit"
       /\ (/\ report'.served = report.served + 1
           /\ outcome'.kind \in {"error", "react"}) =>
              /\ results' = results
              /\ args'.ticker # "" =>
                     /\ CacheKey(args'.ticker, report.today)
                            \notin DOMAIN results'
                     /\ report'.fetches = report.fetches + 1]_vars

\* C30 witness: with a result cached for one ticker, a request for another
\* ticker failed for lack of stock data and the cache still holds just the
\* first result
C30_Witness ==
    /\ pc = "serving"
    /\ report.served = 2
    /\ args.ticker = "AAPL"
    /\ outcome = ErrorResult("no_stock_data")
    /\ DOMAIN results = {CacheKey("000001", 1)}
    /\ results[CacheKey("000001", 1)].kind = "toolkit"

====
